---- MODULE Spec2Model ----
(***************************************************************************)
(* surgeryBox firmware: the UDP command channel (wifi_udp_server.cpp) and  *)
(* the event sequencer (main.cpp, events part), run by the Arduino loop(). *)
(*                                                                         *)
(* One action is one call of a loop() handler, or one iteration of a       *)
(* blocking wait together with the code that runs when the wait returns,   *)
(* up to the next blocking point.                                          *)
(*                                                                         *)
(* Distances are counted in 1/DistScale units so that the 0.5 of           *)
(* waitShortPull is an integer.  Thresholds are whole units, as random()   *)
(* produces them.                                                          *)
(***************************************************************************)
EXTENDS Integers, Sequences, FiniteSets, TLC

VARIABLES
    distanceArrays,     \* float distanceArrays[..][4]
    currentArray,       \* float currentArray[4]
    sequenceRunning,    \* bool sequenceRunning
    lastRemote,         \* lastRemoteIp, lastRemotePort
    brake,              \* servo brake position (servo_brake)
    serialInputBuffer,  \* String serialInputBuffer
    pc,                 \* where loop() stands
    dist,               \* processEncoderEvents: float dist, while still needed
    startDist,          \* waitShortPull: float startDist
    lastRead,           \* what readDistance() last returned in the latest step
    rx,                 \* datagram read by readIncomingUDP in the latest step
    out,                \* sendUDPMessageToLast calls of the latest step, in order
    started,            \* startEventSequence call of the latest step, if any
    wound,              \* number of motorWindBack() calls of the latest step
    script,             \* position in the scripted readings (0: readings are free)
    notes               \* what the sequencer did while the script was active

vars == <<distanceArrays, currentArray, sequenceRunning, lastRemote, brake,
          serialInputBuffer, pc, dist, startDist, lastRead, rx, out, started,
          wound, script, notes>>

(***************************************************************************)
(* Bounds of the model                                                     *)
(***************************************************************************)
\* rows of distanceArrays that are modelled (the firmware has 10)
NumArrays == 2
\* stride with which the outcomes of random(lo, hi) are sampled
RandStride == 5
\* number of distinct remote clients
NumClients == 2
\* readings offered around the start of a short pull, in 1/DistScale units
PullSpan == 3
\* longest line the serial console injects
MaxSerialLen == 1
\* resolution of the distance readings: DistScale steps per unit
DistScale == 4

(***************************************************************************)
(* Values                                                                  *)
(***************************************************************************)

BrakeStates == {"Released", "Locked", "Weak"}

servoBrakeLock == "Locked"
servoBrakeRelease == "Released"
servoBrakeWeak == "Weak"

\* IPAddress() / uint16_t zero initialisation of the globals
NoRemote == [ip |-> 0, port |-> 0]
Clients == {[ip |-> c, port |-> 5000 + c] : c \in 1..NumClients}

NoPacket == [size |-> 0]

\* datagram texts: a body without surrounding whitespace, wrapped in
\* optional leading and trailing whitespace
Bodies == {"Start", "Stop", "Winding", "OK", "OK1", "Continue", "OK2", "Hello"}
Wraps == {<<"", "">>, <<" ", "\n">>}
Payloads == {[lead |-> w[1], body |-> b, trail |-> w[2]] : w \in Wraps, b \in Bodies}
Raw(p) == p.lead \o p.body \o p.trail
\* String::trim(): strips leading and trailing whitespace
Trim(p) == p.body

Packets == {[size |-> 1, from |-> c, payload |-> p] : c \in Clients, p \in Payloads}

\* slip: the upper bound taken as inclusive
Random_Inclusive(lo, hi) == {v \in lo..hi : (v - lo) % RandStride = 0}

\* random(lo, hi): an integer in lo..hi-1, sampled every RandStride
Random(lo, hi) == {v \in lo..(hi - 1) : (v - lo) % RandStride = 0}

\* slip: the ranges of the third and fourth draw exchanged
Rows_Swapped == {<<a, a + 10, a + 30, a + 20>> : a \in Random(5, 15)}

\* one row of eventsInit: the four random() draws of a row, sampled together
Rows == {<<a, a + 10, a + 20, a + 30>> : a \in Random(5, 15)}

\* readDistance(): the encoder distance, on a grid holding every threshold,
\* points between them, and the points next to a given base
Grid == {0, 5, 10, 12, 15, 20, 22, 25, 30, 32, 35, 40, 42}
Script == <<5, 12, 22, 32, 42>>
ScriptRow == <<10, 20, 30, 40>>
Readings == {g * DistScale : g \in Grid}
ReadingsNear(base) == {base + k : k \in 0..PullSpan}

\* slip: the comparison written with > instead of >=
GE_Strict(d, t) == d > t * DistScale

\* dist >= currentArray[i], the threshold being in whole units
GE(d, t) == d >= t * DistScale
\* slip: any increase of the distance ends the short pull
PulledShort_AnyIncrease(d, start) == d > start

\* readDistance() < startDist + 0.5 is false
PulledShort(d, start) == 2 * (d - start) >= DistScale

\* one sendUDPMessageToLast call: the endpoint and text it was made with
\* and whether Udp sent a datagram for it
Call(remote, text, sent) ==
    [ip |-> remote.ip, port |-> remote.port, text |-> text, sent |-> sent]
Dgram(remote, text) == Call(remote, text, TRUE)

\* slip: the test of lastRemoteIp left out
sendUDPMessageToLast_NoGuard(remote, msg) == <<Call(remote, msg, TRUE)>>

\* sendUDPMessageToLast(msg) with the endpoint globals holding `remote`
sendUDPMessageToLast(remote, msg) == <<Call(remote, msg, remote.ip # 0)>>

\* the datagrams among the calls cs that left the device
Wire(cs) == SelectSeq(cs, LAMBDA c : c.sent)

\* slip: lastRemotePort is not updated
readIncomingUDP_KeepPort(in, remote) ==
    IF in.size = 0
    THEN [ok |-> FALSE, remote |-> remote, msg |-> ""]
    ELSE [ok |-> TRUE, remote |-> [ip |-> in.from.ip, port |-> remote.port],
          msg |-> Trim(in.payload)]

\* readIncomingUDP(msg) on what Udp.parsePacket() finds: the return value,
\* the endpoint globals afterwards, and msg
readIncomingUDP(in, remote) ==
    IF in.size = 0
    THEN [ok |-> FALSE, remote |-> remote, msg |-> ""]
    ELSE [ok |-> TRUE, remote |-> in.from, msg |-> Trim(in.payload)]

\* the record of a scripted run: what was sent, and where a wait began,
\* each with the reading of the tick
Sent(cs, at) == [i \in 1..Len(Wire(cs)) |-> <<Wire(cs)[i].text, at>>]
Scripted == script \in 1..Len(Script)
Log(entries) == IF Scripted THEN notes \o entries ELSE notes
\* the reading of the scripted tick under way
ScriptAt == IF Scripted THEN Script[script] * DistScale ELSE 0
\* a tick over: the script moves to its next reading
ScriptNext == IF Scripted THEN script + 1 ELSE script

(***************************************************************************)
(* setup()                                                                 *)
(***************************************************************************)
NoStart == [idx |-> -1]

Setup(s) ==
    /\ currentArray = <<0, 0, 0, 0>>
    /\ sequenceRunning = FALSE
    /\ lastRemote = NoRemote
    /\ brake \in BrakeStates
    /\ serialInputBuffer = ""
    /\ pc = "handleUDPMessages"
    /\ dist = 0
    /\ startDist = 0
    /\ lastRead = 0
    /\ rx = NoPacket
    /\ out = <<>>
    /\ wound = 0
    /\ started = NoStart
    /\ script = s
    /\ notes = <<>>

\* eventsInit(): every row drawn by random()
Init ==
    /\ distanceArrays \in [0..(NumArrays - 1) -> Rows]
    /\ Setup(0)

\* the start of the scripted run: eventsInit() has drawn ScriptRow for
\* every row, and the ticks of the run read Script
InitScripted ==
    /\ distanceArrays = [i \in 0..(NumArrays - 1) |-> ScriptRow]
    /\ Setup(1)

(***************************************************************************)
(* wifi_udp_server.cpp: handleUDPMessages                                  *)
(***************************************************************************)
\* slip: Start toggles the run
startEventSequence_Toggle(idx) ==
    /\ currentArray' = distanceArrays[idx]
    /\ sequenceRunning' = ~sequenceRunning
    /\ started' = [idx |-> idx, wasRunning |-> sequenceRunning, old |-> currentArray]

\* slip: a Start during a run keeps the active profile
startEventSequence_IfIdle(idx) ==
    /\ currentArray' = IF sequenceRunning THEN currentArray ELSE distanceArrays[idx]
    /\ sequenceRunning' = TRUE
    /\ started' = [idx |-> idx, wasRunning |-> sequenceRunning, old |-> currentArray]

\* startEventSequence(): the row random(0,10) picks becomes the active one
startEventSequence(idx) ==
    /\ currentArray' = distanceArrays[idx]
    /\ sequenceRunning' = TRUE
    /\ started' = [idx |-> idx, wasRunning |-> sequenceRunning, old |-> currentArray]

\* slip: the echo left out
Replies_AckOnly(remote, msg) == sendUDPMessageToLast(remote, "ACK: " \o msg)

\* the datagrams handleUDPMessages answers msg with: the echo, then the ACK
Replies(remote, msg) ==
    sendUDPMessageToLast(remote, msg) \o sendUDPMessageToLast(remote, "ACK: " \o msg)

\* slip: Stop ends the run as well
HandleUDPMessages_StopEndsRun ==
    /\ pc = "handleUDPMessages"
    /\ pc' = "processEncoderEvents"
    /\ \E in \in Packets \cup {NoPacket} :
        LET r == readIncomingUDP(in, lastRemote) IN
        /\ rx' = in
        /\ lastRemote' = r.remote
        /\ IF ~r.ok
           THEN /\ out' = <<>>
                /\ wound' = 0
                /\ started' = NoStart
                /\ UNCHANGED <<currentArray, sequenceRunning, brake>>
           ELSE /\ out' = Replies(r.remote, r.msg)
                /\ IF r.msg = "Start"
                   THEN /\ \E idx \in 0..(NumArrays - 1) : startEventSequence(idx)
                        /\ wound' = 0
                        /\ UNCHANGED brake
                   ELSE IF r.msg = "Stop"
                   THEN /\ brake' = servoBrakeLock
                        /\ wound' = 0
                        /\ started' = NoStart
                        /\ sequenceRunning' = FALSE
                        /\ UNCHANGED currentArray
                   ELSE IF r.msg = "Winding"
                   THEN /\ wound' = 1
                        /\ started' = NoStart
                        /\ UNCHANGED <<currentArray, sequenceRunning, brake>>
                   ELSE /\ wound' = 0
                        /\ started' = NoStart
                        /\ UNCHANGED <<currentArray, sequenceRunning, brake>>
    /\ lastRead' = 0
    /\ UNCHANGED <<distanceArrays, serialInputBuffer, dist, startDist, script, notes>>

HandleUDPMessages ==
    /\ pc = "handleUDPMessages"
    /\ pc' = "processEncoderEvents"
    /\ \E in \in Packets \cup {NoPacket} :
        LET r == readIncomingUDP(in, lastRemote) IN
        /\ rx' = in
        /\ lastRemote' = r.remote
        /\ IF ~r.ok
           THEN /\ out' = <<>>
                /\ wound' = 0
                /\ started' = NoStart
                /\ UNCHANGED <<currentArray, sequenceRunning, brake>>
           ELSE /\ out' = Replies(r.remote, r.msg)
                /\ IF r.msg = "Start"
                   THEN /\ \E idx \in 0..(NumArrays - 1) : startEventSequence(idx)
                        /\ wound' = 0
                        /\ UNCHANGED brake
                   ELSE IF r.msg = "Stop"
                   THEN /\ brake' = servoBrakeLock
                        /\ wound' = 0
                        /\ started' = NoStart
                        /\ UNCHANGED <<currentArray, sequenceRunning>>
                   ELSE IF r.msg = "Winding"
                   THEN /\ wound' = 1
                        /\ started' = NoStart
                        /\ UNCHANGED <<currentArray, sequenceRunning, brake>>
                   ELSE /\ wound' = 0
                        /\ started' = NoStart
                        /\ UNCHANGED <<currentArray, sequenceRunning, brake>>
    /\ lastRead' = 0
    /\ UNCHANGED <<distanceArrays, serialInputBuffer, dist, startDist, script, notes>>

(***************************************************************************)
(* main.cpp: processEncoderEvents, in the pieces between its blocking      *)
(* calls.  Each piece gets the datagrams `pre` the step has already        *)
(* sent and the endpoint `remote` the step leaves in the globals.          *)
(***************************************************************************)
\* slip: the servoBrakeRelease() before the return has no effect
TickDone_KeepBrake(pre, b) ==
    /\ pc' = "signalTesterLoop"
    /\ out' = pre
    /\ brake' = brake
    /\ dist' = 0
    /\ startDist' = 0
    /\ script' = ScriptNext

\* the tick returns to loop()
TickDone(pre, b) ==
    /\ pc' = "signalTesterLoop"
    /\ out' = pre
    /\ brake' = b
    /\ dist' = 0
    /\ startDist' = 0
    /\ script' = ScriptNext

\* lines 72-75: if(dist >= currentArray[3]) { LowDamp; weak; waitForCmdAny
LowDampStage(d, at, pre, b, remote, log) ==
    IF GE(d, currentArray[4])
    THEN LET snd == sendUDPMessageToLast(remote, "LowDamp") IN
         /\ pc' = "waitForCmdAny"
         /\ out' = pre \o snd
         /\ brake' = servoBrakeWeak
         /\ dist' = 0
         /\ startDist' = 0
         /\ script' = script
         /\ notes' = Log(log \o Sent(snd, at) \o <<<<"wait OK1/Continue", at>>>>)
    ELSE /\ TickDone(pre, b)
         /\ notes' = Log(log)

\* slip: servoBrakeLock() left out of the HighDamp stage
HighDampStage_NoLock(d, pre, b, remote) ==
    IF GE(d, currentArray[3])
    THEN LET snd == sendUDPMessageToLast(remote, "HighDamp") IN
         /\ pc' = "waitForCmd_OK"
         /\ out' = pre \o snd
         /\ brake' = b
         /\ dist' = d
         /\ startDist' = 0
         /\ script' = script
         /\ notes' = Log(Sent(pre \o snd, d) \o <<<<"wait OK", d>>>>)
    ELSE LowDampStage(d, d, pre, b, remote, Sent(pre, d))

\* slip: a fired flag: the stage runs once per recorded run
HighDampStage_Latched(d, pre, b, remote) ==
    IF GE(d, currentArray[3]) /\ ~(\E i \in DOMAIN notes : notes[i][1] = "HighDamp")
    THEN LET snd == sendUDPMessageToLast(remote, "HighDamp") IN
         /\ pc' = "waitForCmd_OK"
         /\ out' = pre \o snd
         /\ brake' = servoBrakeLock
         /\ dist' = d
         /\ startDist' = 0
         /\ script' = script
         /\ notes' = Log(Sent(pre \o snd, d) \o <<<<"wait OK", d>>>>)
    ELSE LowDampStage(d, d, pre, b, remote, Sent(pre, d))

\* slip: an OK that handleUDPMessages has just read satisfies the wait
HighDampStage_UsesLastMsg(d, pre, b, remote) ==
    IF GE(d, currentArray[3])
    THEN LET snd == sendUDPMessageToLast(remote, "HighDamp") IN
         IF rx.size # 0 /\ Trim(rx.payload) = "OK"
         THEN LowDampStage(d, d, pre \o snd, servoBrakeRelease, remote,
                           Sent(pre \o snd, d))
         ELSE /\ pc' = "waitForCmd_OK"
              /\ out' = pre \o snd
              /\ brake' = servoBrakeLock
              /\ dist' = d
              /\ startDist' = 0
              /\ script' = script
              /\ notes' = Log(Sent(pre \o snd, d) \o <<<<"wait OK", d>>>>)
    ELSE LowDampStage(d, d, pre, b, remote, Sent(pre, d))

\* lines 66-69: if(dist >= currentArray[2]) { HighDamp; lock; waitForCmd("OK")
HighDampStage(d, pre, b, remote) ==
    IF GE(d, currentArray[3])
    THEN LET snd == sendUDPMessageToLast(remote, "HighDamp") IN
         /\ pc' = "waitForCmd_OK"
         /\ out' = pre \o snd
         /\ brake' = servoBrakeLock
         /\ dist' = d
         /\ startDist' = 0
         /\ script' = script
         /\ notes' = Log(Sent(pre \o snd, d) \o <<<<"wait OK", d>>>>)
    ELSE LowDampStage(d, d, pre, b, remote, Sent(pre, d))

\* slip: the second test written as else-if
PainStage_ElseIf(d, remote) ==
    IF GE(d, currentArray[2]) THEN sendUDPMessageToLast(remote, "Pain2")
    ELSE IF GE(d, currentArray[1]) THEN sendUDPMessageToLast(remote, "Pain")
    ELSE <<>>

\* lines 64-65: the two notifications that need no acknowledgment
PainStage(d, remote) ==
    (IF GE(d, currentArray[1]) THEN sendUDPMessageToLast(remote, "Pain") ELSE <<>>)
    \o (IF GE(d, currentArray[2]) THEN sendUDPMessageToLast(remote, "Pain2") ELSE <<>>)

\* readDistance() at the start of a tick
TickReadings == IF Scripted THEN {ScriptAt} ELSE Readings

\* slip: the test of sequenceRunning left out
ProcessEncoderEvents_NoGuard ==
    /\ pc = "processEncoderEvents"
    /\ rx' = NoPacket
    /\ wound' = 0
    /\ started' = NoStart
    /\ \E d \in TickReadings :
        /\ lastRead' = d
        /\ HighDampStage(d, PainStage(d, lastRemote), brake, lastRemote)
    /\ UNCHANGED <<distanceArrays, currentArray, sequenceRunning, lastRemote,
                   serialInputBuffer>>

ProcessEncoderEvents ==
    /\ pc = "processEncoderEvents"
    /\ rx' = NoPacket
    /\ wound' = 0
    /\ started' = NoStart
    /\ IF ~sequenceRunning
       THEN /\ pc' = "signalTesterLoop"
            /\ out' = <<>>
            /\ lastRead' = 0
            /\ UNCHANGED <<brake, dist, startDist, script, notes>>
       ELSE \E d \in TickReadings :
            /\ lastRead' = d
            /\ HighDampStage(d, PainStage(d, lastRemote), brake, lastRemote)
    /\ UNCHANGED <<distanceArrays, currentArray, sequenceRunning, lastRemote,
                   serialInputBuffer>>

(***************************************************************************)
(* wifi_udp_server.cpp: the blocking waits, one loop iteration per step    *)
(***************************************************************************)
\* slip: the comparison with target left out
waitForCmd_AnyMessage(r, target) == r.ok

\* slip: Stop ends the wait as well
waitForCmdAny_OrStop(r, targets) == r.ok /\ \E t \in targets \cup {"Stop"} : r.msg = t

\* waitForCmd(target): does this iteration end the wait?
waitForCmd(r, target) == r.ok /\ r.msg = target
\* waitForCmdAny(targets)
waitForCmdAny(r, targets) == r.ok /\ \E t \in targets : r.msg = t

\* waitForCmd("OK") of the HighDamp stage; on return line 70 releases the
\* brake and the tick goes on with line 72
WaitForCmd_OK ==
    /\ pc = "waitForCmd_OK"
    /\ wound' = 0
    /\ started' = NoStart
    /\ \E in \in Packets \cup {NoPacket} :
        LET r == readIncomingUDP(in, lastRemote) IN
        /\ rx' = in
        /\ lastRemote' = r.remote
        /\ IF waitForCmd(r, "OK")
           THEN LowDampStage(dist, dist, <<>>, servoBrakeRelease, r.remote, <<>>)
           ELSE /\ out' = <<>>
                /\ UNCHANGED <<pc, brake, dist, startDist, script, notes>>
    /\ lastRead' = 0
    /\ UNCHANGED <<distanceArrays, currentArray, sequenceRunning, serialInputBuffer>>

\* slip: servoBrakeRelease() left out of the OK1 branch
LowDampOK1_NoRelease ==
    /\ TickDone(<<>>, brake)
    /\ lastRead' = 0
    /\ UNCHANGED notes

\* lines 76-77: cmd == "OK1" releases the brake and the tick ends
LowDampOK1 ==
    /\ TickDone(<<>>, servoBrakeRelease)
    /\ lastRead' = 0
    /\ UNCHANGED notes

\* lines 78-79: cmd == "Continue" enters waitShortPull, whose first
\* statement reads startDist
LowDampContinue ==
    \E d \in Readings :
        /\ lastRead' = d
        /\ startDist' = d
        /\ pc' = "waitShortPull"
        /\ out' = <<>>
        /\ UNCHANGED <<brake, dist, script, notes>>

\* waitForCmdAny({"OK1","Continue"}) of the LowDamp stage, and the branch
\* on what it returns
WaitForCmdAny ==
    /\ pc = "waitForCmdAny"
    /\ wound' = 0
    /\ started' = NoStart
    /\ \E in \in Packets \cup {NoPacket} :
        LET r == readIncomingUDP(in, lastRemote) IN
        /\ rx' = in
        /\ lastRemote' = r.remote
        /\ IF waitForCmdAny(r, {"OK1", "Continue"})
           THEN IF r.msg = "OK1" THEN LowDampOK1 ELSE LowDampContinue
           ELSE /\ out' = <<>>
                /\ lastRead' = 0
                /\ UNCHANGED <<pc, brake, dist, startDist, script, notes>>
    /\ UNCHANGED <<distanceArrays, currentArray, sequenceRunning,
                   serialInputBuffer>>

\* one test of the waitShortPull loop; when it fails lines 80-81 send Keep
\* and enter waitForCmd("OK2")
WaitShortPull ==
    /\ pc = "waitShortPull"
    /\ wound' = 0
    /\ started' = NoStart
    /\ rx' = NoPacket
    /\ \E d \in Readings \cup ReadingsNear(startDist) :
        /\ lastRead' = d
        /\ IF PulledShort(d, startDist)
           THEN LET snd == sendUDPMessageToLast(lastRemote, "Keep") IN
                /\ pc' = "waitForCmd_OK2"
                /\ out' = snd
                /\ notes' = Log(Sent(snd, ScriptAt) \o <<<<"wait OK2", ScriptAt>>>>)
                /\ startDist' = 0
           ELSE /\ out' = <<>>
                /\ UNCHANGED <<pc, startDist, notes>>
    /\ UNCHANGED <<distanceArrays, currentArray, sequenceRunning, lastRemote,
                   brake, serialInputBuffer, dist, script>>

\* waitForCmd("OK2"); on return line 82 releases the brake and the tick ends
WaitForCmd_OK2 ==
    /\ pc = "waitForCmd_OK2"
    /\ wound' = 0
    /\ started' = NoStart
    /\ \E in \in Packets \cup {NoPacket} :
        LET r == readIncomingUDP(in, lastRemote) IN
        /\ rx' = in
        /\ lastRemote' = r.remote
        /\ IF waitForCmd(r, "OK2")
           THEN /\ TickDone(<<>>, servoBrakeRelease)
                /\ UNCHANGED notes
           ELSE /\ out' = <<>>
                /\ UNCHANGED <<pc, brake, dist, startDist, script, notes>>
    /\ lastRead' = 0
    /\ UNCHANGED <<distanceArrays, currentArray, sequenceRunning, serialInputBuffer>>

(***************************************************************************)
(* main.cpp: signalTesterLoop                                              *)
(***************************************************************************)
\* what Serial holds when signalTesterLoop runs: nothing, or characters
SerialChars == {"K", "\r"}
SerialInputs == {<<>>} \cup {<<c>> : c \in SerialChars}

\* the while loop over the available characters: the buffer afterwards and
\* the lines handed to sendUDPMessageToLast
RECURSIVE TesterRun(_, _, _)
TesterRun(chars, buf, lines) ==
    IF chars = <<>> THEN [buf |-> buf, lines |-> lines]
    ELSE IF Head(chars) = "\n" \/ Head(chars) = "\r"
    THEN IF buf # ""
         THEN TesterRun(Tail(chars), "", Append(lines, buf))
         ELSE TesterRun(Tail(chars), buf, lines)
    ELSE TesterRun(Tail(chars), buf \o Head(chars), lines)

RECURSIVE SendAll(_, _)
SendAll(remote, lines) ==
    IF lines = <<>> THEN <<>>
    ELSE sendUDPMessageToLast(remote, Head(lines)) \o SendAll(remote, Tail(lines))

SignalTesterLoop ==
    /\ pc = "signalTesterLoop"
    /\ pc' = "handleUDPMessages"
    /\ rx' = NoPacket
    /\ wound' = 0
    /\ started' = NoStart
    /\ \E chars \in SerialInputs :
        LET t == TesterRun(chars, serialInputBuffer, <<>>) IN
        /\ Len(t.buf) <= MaxSerialLen
        /\ serialInputBuffer' = t.buf
        /\ out' = SendAll(lastRemote, t.lines)
    /\ lastRead' = 0
    /\ UNCHANGED <<distanceArrays, currentArray, sequenceRunning, lastRemote,
                   brake, dist, startDist, script, notes>>

(***************************************************************************)
(* loop()                                                                  *)
(***************************************************************************)
Next ==
    \/ HandleUDPMessages
    \/ ProcessEncoderEvents
    \/ WaitForCmd_OK
    \/ WaitForCmdAny
    \/ WaitShortPull
    \/ WaitForCmd_OK2
    \/ SignalTesterLoop

Spec == Init /\ [][Next]_vars

\* the firmware started on the scripted run
SpecScripted == InitScripted /\ [][Next]_vars

\* the iteration of each blocking loop that ends it: the awaited text is
\* read (waitForCmd line 106, waitForCmdAny line 118), the distance has
\* risen by 0.5 (waitShortPull line 127)
OKArrives == WaitForCmd_OK /\ pc' # pc
ReplyArrives == WaitForCmdAny /\ pc' # pc
CordPulled == WaitShortPull /\ pc' # pc
OK2Arrives == WaitForCmd_OK2 /\ pc' # pc

\* loop() runs for ever, and the operator answers every wait and, after
\* Continue, pulls the cord
SpecLive ==
    /\ Spec
    /\ WF_vars(Next)
    /\ WF_vars(OKArrives)
    /\ WF_vars(ReplyArrives)
    /\ WF_vars(CordPulled)
    /\ WF_vars(OK2Arrives)

(***************************************************************************)
(* Vocabulary of the properties                                            *)
(***************************************************************************)
Received == rx.size # 0
ReceivedNext == rx'.size # 0
\* the text of the datagram the latest step read, as the firmware sees it
Text == Trim(rx.payload)
Texts(cs) == {cs[i].text : i \in DOMAIN cs}
WaitsForCmd == {"waitForCmd_OK", "waitForCmdAny", "waitForCmd_OK2"}
\* a step of handleUDPMessages ends here, and no other step does
Dispatched == pc = "processEncoderEvents"

WaitTargets(p) ==
    IF p = "waitForCmd_OK" THEN {"OK"}
    ELSE IF p = "waitForCmdAny" THEN {"OK1", "Continue"}
    ELSE {"OK2"}

C2_Step ==
    pc \in WaitsForCmd =>
        LET match == ReceivedNext /\ Trim(rx'.payload) \in WaitTargets(pc) IN
        /\ (pc' # pc) <=> match
        /\ (pc = "waitForCmdAny" /\ match) =>
              IF Trim(rx'.payload) = "OK1"
              THEN pc' = "signalTesterLoop"
              ELSE pc' = "waitShortPull"
        /\ ~match =>
              /\ out' = <<>>
              /\ UNCHANGED <<brake, currentArray, sequenceRunning, dist>>

C2_WaitReturnsOnMatchOnly == [][C2_Step]_vars

C2_Witness ==
    /\ pc = "waitShortPull"
    /\ Received
    /\ rx.payload.body = "Continue"
    /\ rx.payload.lead # ""

(***************************************************************************)
(* C3: a Start, Stop or Winding datagram read while a wait is pending is   *)
(* not acted on: profile, running flag and brake stay as they are, nothing *)
(* is rewound, and the wait goes on.                                       *)
(***************************************************************************)
C3_Step ==
    (pc \in WaitsForCmd /\ ReceivedNext
        /\ Trim(rx'.payload) \in {"Start", "Stop", "Winding"}) =>
            /\ UNCHANGED <<currentArray, sequenceRunning, brake, pc>>
            /\ wound' = 0
            /\ started' = NoStart

C3_NoDispatchInWait == [][C3_Step]_vars

C3_Witness ==
    /\ pc = "waitForCmdAny"
    /\ Received
    /\ Text = "Stop"
    /\ brake = "Weak"

(***************************************************************************)
(* C4: with the active profile [10,20,30,40] and one tick per reading      *)
(* 5, 12, 22, 32, 42, the sequencer sends Pain1 at 12, Pain2 at 22,        *)
(* HighDamp at 32 and blocks for OK, LowDamp at 42 and blocks for          *)
(* OK1/Continue, and nothing else.                                         *)
(***************************************************************************)
At(u) == u * DistScale
\* the tick of the last scripted reading has blocked in its LowDamp wait
ScriptBlockedInLowDamp == script = Len(Script) /\ pc = "waitForCmdAny"

C4_ScriptAsStated ==
    ScriptBlockedInLowDamp =>
        notes = << <<"Pain1", At(12)>>, <<"Pain2", At(22)>>,
                   <<"HighDamp", At(32)>>, <<"wait OK", At(32)>>,
                   <<"LowDamp", At(42)>>, <<"wait OK1/Continue", At(42)>> >>

\* C4 as the code has it: the first notification reads "Pain", and every
\* tick sends again each notification whose threshold the reading has
\* reached: Pain at 12; Pain, Pain2 at 22; Pain, Pain2, HighDamp at 32 and a
\* block for OK; Pain, Pain2, HighDamp at 42 and a block for OK, then
\* LowDamp and a block for OK1/Continue.
C4_ScriptAsCoded ==
    ScriptBlockedInLowDamp =>
        notes = << <<"Pain", At(12)>>,
                   <<"Pain", At(22)>>, <<"Pain2", At(22)>>,
                   <<"Pain", At(32)>>, <<"Pain2", At(32)>>,
                   <<"HighDamp", At(32)>>, <<"wait OK", At(32)>>,
                   <<"Pain", At(42)>>, <<"Pain2", At(42)>>,
                   <<"HighDamp", At(42)>>, <<"wait OK", At(42)>>,
                   <<"LowDamp", At(42)>>, <<"wait OK1/Continue", At(42)>> >>

C4_Witness ==
    /\ ScriptBlockedInLowDamp
    /\ currentArray = ScriptRow
    /\ Len(notes) = 13

(***************************************************************************)
(* C5: a tick of a running sequence whose reading is below t1, t2 and t3   *)
(* sends the first notification alone when the reading has reached t0 and  *)
(* nothing when it has not, leaves the brake as it is and does not block.  *)
(* The claim names the notification Pain1.                                 *)
(***************************************************************************)
C5_Step(name) ==
    (/\ pc = "processEncoderEvents"
     /\ sequenceRunning
     /\ lastRead' < currentArray[2] * DistScale
     /\ lastRead' < currentArray[3] * DistScale
     /\ lastRead' < currentArray[4] * DistScale) =>
        /\ Wire(out') = IF lastRead' >= currentArray[1] * DistScale
                        THEN <<Dgram(lastRemote, name)>>
                        ELSE <<>>
        /\ brake' = brake
        /\ pc' = "signalTesterLoop"

C5_OnlyPain1 == [][C5_Step("Pain1")]_vars

\* C5 as the code has it: the notification reads "Pain"
C5_OnlyPain == [][C5_Step("Pain")]_vars

C5_Witness ==
    /\ pc = "signalTesterLoop"
    /\ sequenceRunning
    /\ lastRead = currentArray[1] * DistScale
    /\ Texts(Wire(out)) = {"Pain"}

(***************************************************************************)
(* C6: a Start read by handleUDPMessages, also while a run is active,      *)
(* makes the row it picks the active profile, nothing else changes the     *)
(* active profile, and every tick compares its reading with the active     *)
(* profile alone.                                                          *)
(***************************************************************************)
\* what a tick sends before it blocks or returns, by its reading d and the
\* profile a
ExpectedTick(d, a) ==
    (IF d >= a[1] * DistScale THEN <<"Pain">> ELSE <<>>)
    \o (IF d >= a[2] * DistScale THEN <<"Pain2">> ELSE <<>>)
    \o (IF d >= a[3] * DistScale THEN <<"HighDamp">>
        ELSE IF d >= a[4] * DistScale THEN <<"LowDamp">> ELSE <<>>)

C6_Step ==
    /\ (started' # NoStart) <=>
          (pc = "handleUDPMessages" /\ ReceivedNext /\ Trim(rx'.payload) = "Start")
    /\ (started' # NoStart) =>
          /\ currentArray' = distanceArrays[started'.idx]
          /\ sequenceRunning'
    /\ (started' = NoStart) => currentArray' = currentArray
    /\ (pc = "processEncoderEvents" /\ sequenceRunning) =>
          [i \in 1..Len(Wire(out')) |-> Wire(out')[i].text]
              = ExpectedTick(lastRead', currentArray)

C6_StartReplacesProfile == [][C6_Step]_vars

C6_Witness ==
    /\ started # NoStart
    /\ started.wasRunning
    /\ started.old # currentArray
    /\ currentArray = distanceArrays[started.idx]

(***************************************************************************)
(* C7: OK1 read while the LowDamp wait is pending releases the brake,      *)
(* sends nothing (no Keep), enters no further wait and ends the tick.      *)
(***************************************************************************)
C7_Step ==
    (pc = "waitForCmdAny" /\ ReceivedNext /\ Trim(rx'.payload) = "OK1") =>
        /\ brake' = "Released"
        /\ out' = <<>>
        /\ pc' = "signalTesterLoop"

C7_OK1Releases == [][C7_Step]_vars

C7_Witness ==
    /\ pc = "signalTesterLoop"
    /\ Received
    /\ Text = "OK1"
    /\ brake = "Released"

(***************************************************************************)
(* C8: Continue read while the LowDamp wait is pending starts the pull     *)
(* wait at the distance then read; Keep is sent in the step whose reading  *)
(* is at least 0.5 above that distance and in no other step of the         *)
(* sequencer; then the sequencer waits for OK2; the brake is Weak all      *)
(* through and becomes Released in the step that reads OK2.                *)
(***************************************************************************)
C8_Step ==
    /\ (pc = "waitForCmdAny" /\ ReceivedNext /\ Trim(rx'.payload) = "Continue") =>
          /\ pc' = "waitShortPull"
          /\ startDist' = lastRead'
          /\ out' = <<>>
          /\ brake' = brake
    /\ pc = "waitShortPull" =>
          /\ brake' = brake
          /\ IF 2 * (lastRead' - startDist) >= DistScale
             THEN /\ pc' = "waitForCmd_OK2"
                  /\ Wire(out') = <<Dgram(lastRemote, "Keep")>>
             ELSE /\ pc' = "waitShortPull"
                  /\ out' = <<>>
                  /\ startDist' = startDist
    /\ pc = "waitForCmd_OK2" =>
          IF ReceivedNext /\ Trim(rx'.payload) = "OK2"
          THEN brake' = "Released" /\ pc' = "signalTesterLoop"
          ELSE brake' = brake /\ pc' = pc /\ out' = <<>>
    /\ pc' \in {"waitShortPull", "waitForCmd_OK2"} => brake' = "Weak"
    /\ ("Keep" \in Texts(out') /\ pc # "signalTesterLoop") => pc = "waitShortPull"

C8_KeepAfterShortPull == [][C8_Step]_vars

C8_Witness ==
    /\ pc = "waitForCmd_OK2"
    /\ Texts(Wire(out)) = {"Keep"}
    /\ brake = "Weak"

(***************************************************************************)
(* C9: the endpoint globals hold the sender of the latest datagram read,   *)
(* whatever its text and whether handleUDPMessages or a wait read it, and  *)
(* every datagram the device sends goes to the endpoint the globals hold   *)
(* when it is sent.                                                        *)
(***************************************************************************)
C9_Step ==
    /\ ReceivedNext => lastRemote' = rx'.from
    /\ ~ReceivedNext => lastRemote' = lastRemote
    /\ \A i \in DOMAIN out' :
          /\ out'[i].ip = lastRemote'.ip
          /\ out'[i].port = lastRemote'.port

C9_LastSenderIsEndpoint == [][C9_Step]_vars

C9_Witness ==
    /\ pc = "waitForCmdAny"
    /\ Received
    /\ rx.from.ip = 2
    /\ Wire(out) = <<Dgram(rx.from, "LowDamp")>>
    /\ lastRemote.port = 5002

(***************************************************************************)
(* C10: while no endpoint has been recorded a sendUDPMessageToLast call    *)
(* sends nothing, so nothing leaves the device before the first datagram   *)
(* has been read; once an endpoint is recorded it stays recorded and every *)
(* call sends one datagram to it.                                          *)
(***************************************************************************)
C10_Step ==
    /\ lastRemote' = NoRemote => Wire(out') = <<>>
    /\ lastRemote' # NoRemote =>
          /\ Wire(out') = out'
          /\ \A i \in DOMAIN out' : out'[i].ip = lastRemote'.ip
    /\ lastRemote # NoRemote => lastRemote' # NoRemote
    /\ (lastRemote' = NoRemote) <=> (lastRemote = NoRemote /\ ~ReceivedNext)

C10_SendNeedsEndpoint == [][C10_Step]_vars

C10_Witness ==
    /\ lastRemote = NoRemote
    /\ out # <<>>
    /\ Wire(out) = <<>>

(***************************************************************************)
(* C11: while sequenceRunning is false a tick does nothing, whatever the   *)
(* distance: it reads no datagram, makes no send call, leaves the brake    *)
(* as it is and returns without blocking.                                  *)
(***************************************************************************)
C11_Step ==
    (pc = "processEncoderEvents" /\ ~sequenceRunning) =>
        /\ out' = <<>>
        /\ rx' = NoPacket
        /\ pc' = "signalTesterLoop"
        /\ UNCHANGED <<brake, lastRemote, currentArray, sequenceRunning>>

C11_IdleTickIsNoOp == [][C11_Step]_vars

C11_Witness ==
    /\ pc = "signalTesterLoop"
    /\ ~sequenceRunning
    /\ lastRemote # NoRemote
    /\ brake = "Locked"
    /\ out = <<>>

(***************************************************************************)
(* C12: blocked in the wait for OK the brake is Locked; blocked in the     *)
(* wait for OK1/Continue, in the short pull or in the wait for OK2 it is   *)
(* Weak; and a blocked sequencer releases the brake only in the step that  *)
(* reads the acknowledgment its wait is for.                               *)
(***************************************************************************)
C12_Step ==
    /\ pc' = "waitForCmd_OK" => brake' = "Locked"
    /\ pc' \in {"waitForCmdAny", "waitShortPull", "waitForCmd_OK2"} => brake' = "Weak"
    /\ (pc \in WaitsForCmd \cup {"waitShortPull"} /\ brake' = "Released") =>
          /\ pc \in WaitsForCmd
          /\ ReceivedNext
          /\ Trim(rx'.payload) \in WaitTargets(pc) \ {"Continue"}

C12_BrakeWhileBlocked == [][C12_Step]_vars

C12_Witness ==
    /\ pc = "waitForCmd_OK"
    /\ brake = "Locked"
    /\ Received
    /\ Text = "OK1"

(***************************************************************************)
(* C13: a tick sends its notifications in the order of the stages, all     *)
(* decided by its one reading, and LowDamp is sent only in the step that   *)
(* reads the OK of the HighDamp stage of the same tick: never by the step  *)
(* that starts the tick, never while that OK is outstanding.               *)
(***************************************************************************)
TextSeq(cs) == [i \in 1..Len(cs) |-> cs[i].text]

C13_Step ==
    /\ pc = "processEncoderEvents" =>
          TextSeq(out') \in {<<>>, <<"Pain">>, <<"Pain", "Pain2">>,
                             <<"Pain", "Pain2", "HighDamp">>}
    /\ (pc = "processEncoderEvents" /\ "HighDamp" \in Texts(out')) =>
          /\ pc' = "waitForCmd_OK"
          /\ dist' = lastRead'
    /\ pc = "waitForCmd_OK" =>
          IF ReceivedNext /\ Trim(rx'.payload) = "OK"
          THEN TextSeq(out') = IF dist >= currentArray[4] * DistScale
                               THEN <<"LowDamp">> ELSE <<>>
          ELSE out' = <<>> /\ dist' = dist
    /\ (pc # "signalTesterLoop" /\ "LowDamp" \in Texts(out')) => pc = "waitForCmd_OK"

C13_StagesInOrder == [][C13_Step]_vars

C13_Witness ==
    /\ pc = "waitForCmdAny"
    /\ Received
    /\ Text = "OK"
    /\ TextSeq(Wire(out)) = <<"LowDamp">>
    /\ brake = "Weak"

(***************************************************************************)
(* C14: no stage is latched: every tick of a running sequence whose        *)
(* reading has reached t2 sends HighDamp, locks the brake and blocks for   *)
(* OK, also after an earlier HighDamp has been acknowledged and the brake  *)
(* released; and every such tick whose reading has reached t3 sends        *)
(* LowDamp when that OK is read, weakens the brake and blocks again.       *)
(***************************************************************************)
C14_Step ==
    /\ (/\ pc = "processEncoderEvents"
        /\ sequenceRunning
        /\ lastRead' >= currentArray[3] * DistScale) =>
            /\ "HighDamp" \in Texts(Wire(out'))
            /\ brake' = "Locked"
            /\ pc' = "waitForCmd_OK"
    /\ (/\ pc = "waitForCmd_OK"
        /\ ReceivedNext
        /\ Trim(rx'.payload) = "OK"
        /\ dist >= currentArray[4] * DistScale) =>
            /\ "LowDamp" \in Texts(Wire(out'))
            /\ brake' = "Weak"
            /\ pc' = "waitForCmdAny"

C14_NoLatch == [][C14_Step]_vars

\* the scripted run is blocked for the OK of its second HighDamp
C14_Witness ==
    /\ pc = "waitForCmd_OK"
    /\ brake = "Locked"
    /\ \E i, j \in DOMAIN notes :
          /\ i < j
          /\ notes[i] = <<"HighDamp", At(32)>>
          /\ notes[j] = <<"HighDamp", At(42)>>

(***************************************************************************)
(* C15: a datagram read by handleUDPMessages changes what its text calls   *)
(* for and nothing else: Start the running flag and the active profile,    *)
(* Stop the brake (Locked), Winding runs the motor once, any other text    *)
(* changes none of them.                                                   *)
(***************************************************************************)
C15_Step ==
    (pc = "handleUDPMessages" /\ ReceivedNext) =>
        LET text == Trim(rx'.payload) IN
        /\ text = "Start" =>
              /\ sequenceRunning'
              /\ \E idx \in DOMAIN distanceArrays : currentArray' = distanceArrays[idx]
              /\ brake' = brake
              /\ wound' = 0
        /\ text = "Stop" =>
              /\ brake' = "Locked"
              /\ UNCHANGED <<sequenceRunning, currentArray>>
              /\ wound' = 0
        /\ text = "Winding" =>
              /\ wound' = 1
              /\ UNCHANGED <<sequenceRunning, currentArray, brake>>
        /\ text \notin {"Start", "Stop", "Winding"} =>
              /\ wound' = 0
              /\ UNCHANGED <<sequenceRunning, currentArray, brake>>

C15_DispatchFrame == [][C15_Step]_vars

C15_Witness ==
    /\ Dispatched
    /\ Received
    /\ Text = "Winding"
    /\ wound = 1
    /\ sequenceRunning

(***************************************************************************)
(* C16: an acknowledgment text read by handleUDPMessages while no wait is  *)
(* pending is dropped: it changes nothing, the tick that follows still     *)
(* blocks in its wait, and a wait ends only in a step that itself reads a  *)
(* datagram with an awaited text.                                          *)
(***************************************************************************)
AckTexts == {"OK", "OK1", "Continue", "OK2"}

C16_Step ==
    /\ (pc = "handleUDPMessages" /\ ReceivedNext /\ Trim(rx'.payload) \in AckTexts) =>
          UNCHANGED <<brake, sequenceRunning, currentArray, dist, startDist,
                      serialInputBuffer>>
    /\ (/\ pc = "processEncoderEvents"
        /\ Received
        /\ Text \in AckTexts
        /\ sequenceRunning
        /\ lastRead' >= currentArray[3] * DistScale) =>
            /\ pc' = "waitForCmd_OK"
            /\ brake' = "Locked"
    /\ (pc \in WaitsForCmd /\ pc' # pc) =>
          /\ ReceivedNext
          /\ Trim(rx'.payload) \in WaitTargets(pc)

C16_AckNotRemembered == [][C16_Step]_vars

C16_Witness ==
    /\ Dispatched
    /\ Received
    /\ Text = "OK"
    /\ sequenceRunning
    /\ brake = "Released"

(***************************************************************************)
(* C17: once sequenceRunning is true it stays true: no step resets it.     *)
(***************************************************************************)
C17_Step == sequenceRunning => sequenceRunning'

C17_RunningForever == [][C17_Step]_vars

\* a sequence has run through LowDamp, Continue, Keep and OK2
C17_Witness ==
    /\ pc = "signalTesterLoop"
    /\ Received
    /\ Text = "OK2"
    /\ sequenceRunning

(***************************************************************************)
(* C18: a pending wait ends in no other way than by its awaited text (the  *)
(* short pull: by the 0.5 rise), however many other datagrams arrive; and  *)
(* if every awaited text does arrive while its wait is pending and the     *)
(* distance does rise, every tick returns and the dispatch loop runs       *)
(* again.                                                                  *)
(***************************************************************************)
C18_Step ==
    /\ (pc \in WaitsForCmd
            /\ ~(ReceivedNext /\ Trim(rx'.payload) \in WaitTargets(pc))) => pc' = pc
    /\ (pc = "waitShortPull" /\ 2 * (lastRead' - startDist) < DistScale) => pc' = pc

C18_WaitsEndByAckOnly ==
    /\ [][C18_Step]_vars
    /\ (pc = "processEncoderEvents") ~> (pc = "handleUDPMessages")

\* blocked: an iteration of the wait for OK2 has found no datagram
C18_Witness ==
    /\ pc = "waitForCmd_OK2"
    /\ ~Received
    /\ out = <<>>

(***************************************************************************)
(* C19: every row of the bank has t0 in [5,15), t1 in [15,25), t2 in       *)
(* [25,35), t3 in [35,45), so it is strictly increasing; the bank never    *)
(* changes; and while sequenceRunning is true the active profile is a row  *)
(* of the bank.                                                            *)
(***************************************************************************)
RowInRanges(r) ==
    /\ r[1] \in 5..14
    /\ r[2] \in 15..24
    /\ r[3] \in 25..34
    /\ r[4] \in 35..44
    /\ r[1] < r[2] /\ r[2] < r[3] /\ r[3] < r[4]

C19_Step ==
    /\ distanceArrays' = distanceArrays
    /\ DOMAIN distanceArrays = 0..(NumArrays - 1)
    /\ \A i \in DOMAIN distanceArrays : RowInRanges(distanceArrays[i])
    /\ sequenceRunning' =>
          /\ \E i \in DOMAIN distanceArrays : currentArray' = distanceArrays[i]
          /\ RowInRanges(currentArray')

C19_BankFixed == [][C19_Step]_vars

C19_Witness ==
    /\ sequenceRunning
    /\ currentArray = distanceArrays[1]
    /\ distanceArrays[0] # distanceArrays[1]

(***************************************************************************)
(* C20: a tick of a running sequence whose reading has reached t2 does not *)
(* return before it has blocked, and when it returns the brake is          *)
(* Released, whatever it was when the tick began (Locked by a Stop of the  *)
(* same loop iteration included).                                          *)
(***************************************************************************)
C20_Step ==
    /\ (/\ pc = "processEncoderEvents"
        /\ sequenceRunning
        /\ lastRead' >= currentArray[3] * DistScale) => pc' = "waitForCmd_OK"
    /\ (pc \in WaitsForCmd \cup {"waitShortPull"} /\ pc' = "signalTesterLoop") =>
          brake' = "Released"
    /\ (pc = "processEncoderEvents" /\ sequenceRunning /\ pc' = "signalTesterLoop") =>
          /\ lastRead' < currentArray[3] * DistScale
          /\ brake' = brake

C20_TickEndsReleased == [][C20_Step]_vars

\* a tick that blocked for OK only has returned
C20_Witness ==
    /\ pc = "signalTesterLoop"
    /\ Received
    /\ Text = "OK"
    /\ brake = "Released"
    /\ sequenceRunning

====
